---- MODULE Spec2Model ----
(***************************************************************************)
(* VaultSeed backend: signature-authenticated login and nonce-gated        *)
(* release of encrypted records.                                           *)
(*                                                                         *)
(* Strings are sequences of tokens.  A token is a literal piece of text,   *)
(* a 42-character chain address (key and letter case), a 64-character hex  *)
(* nonce, or a decimal number.  Two strings are equal exactly when their   *)
(* token sequences are equal.                                              *)
(***************************************************************************)
EXTENDS Integers, Sequences, FiniteSets, TLC

\* ------------------------------------------------------------------ bounds
\* GenerateNonce hands out at most MaxNonce values in a behaviour.
MaxNonce == 3
\* The table of encrypted records holds at most MaxContents rows.
MaxContents == 1

\* ------------------------------------------------------------- constants
\* len(sigBytes) != 65
SigLen == 65
\* userAddress = userAddress[:42]
AddrLen == 42
\* GenerateNonce: 32 random bytes, hex-encoded to 64 characters
NonceHexLen == 64

\* ------------------------------------------------------------------ state
VARIABLES
    clientAddrs, \* the address tokens clients use (fixed in a behaviour)
    userRows,   \* table users: address string -> number of rows holding it
    users,      \* table users: address string -> User row
    contents,   \* table encrypted_contents: ID (index) -> EncryptedContent row
    nonceCtr,   \* number of nonces GenerateNonce has handed out
    proc,       \* the handler invocations in flight, one per worker
    last,       \* the most recent HTTP response
    overlap,    \* "off": one request at a time; "on": one may overlap; "done": it has
    tokens,     \* history: the tokens Login has emitted
    verified    \* the calls of VerifyEthereumSignature made on one input, and their result

vars == << users, contents, nonceCtr, proc, last, overlap, tokens, clientAddrs,
          userRows, verified >>

\* ---------------------------------------------------------------- strings
Lit(s) == [kind |-> "lit", s |-> s, n |-> 0]
\* form: 0 all-lowercase, 1 mixed-case checksum, 2 all-uppercase digits
AddrTok(k, form) == [kind |-> "addr", s |-> k, n |-> form]
NonceTok(n) == [kind |-> "hex", s |-> "", n |-> n]
NumTok(i) == [kind |-> "num", s |-> "", n |-> i]

Space == Lit(" ")
Quote == Lit("\"")
Colon == Lit(":")
EmptyStr == << >>

LoginPrefix == Lit("Sign this message to authenticate with VaultSeed. Address: ")
NonceInfix == Lit(", Nonce: ")
DecryptPrefix == Lit("Sign this message to decrypt content. Content ID: ")
\* "\x19Ethereum Signed Message:\n", 26 bytes
EthPrefix == Lit("[0x19]Ethereum Signed Message:[LF]")
Hello == << Lit("hello") >>
Foo == << Lit("foo") >>

Digits(i) == IF i < 10 THEN 1 ELSE IF i < 100 THEN 2 ELSE 3

\* Number of characters of one token.
TokLen(t) ==
    CASE t.kind = "addr" -> AddrLen
      [] t.kind = "hex" -> NonceHexLen
      [] t.kind = "num" -> Digits(t.n)
      [] t = LoginPrefix -> 59
      [] t = NonceInfix -> 9
      [] t = DecryptPrefix -> 50
      [] t = EthPrefix -> 26
      [] t = Hello[1] -> 5
      [] t = Foo[1] -> 3
      [] OTHER -> 1

RECURSIVE StrLen(_)
StrLen(str) == IF str = << >> THEN 0 ELSE TokLen(Head(str)) + StrLen(Tail(str))

\* strings.TrimSpace
RECURSIVE TrimLeft(_)
TrimLeft(str) ==
    IF str # << >> /\ Head(str) = Space THEN TrimLeft(Tail(str)) ELSE str
RECURSIVE TrimRight(_)
TrimRight(str) ==
    IF str # << >> /\ str[Len(str)] = Space
    THEN TrimRight(SubSeq(str, 1, Len(str) - 1))
    ELSE str
TrimSpace(str) == TrimRight(TrimLeft(str))

\* A lowering that leaves every letter as it is.
KeepCase(str) == str

\* strings.ToLower: only the letter case of address digits is modelled.
ToLower(str) ==
    [i \in DOMAIN str |->
        IF str[i].kind = "addr" THEN AddrTok(str[i].s, 0) ELSE str[i]]

\* s[:42] when len(s) > 42, else s.  Strings here carry at most one token
\* before the 42-character boundary.
Truncate42(str) ==
    IF StrLen(str) > AddrLen
    THEN IF TokLen(Head(str)) = AddrLen THEN << Head(str) >> ELSE str
    ELSE str

\* ------------------------------------------------------------- signatures
Keys == {"A", "B"}
\* The key a recovery yields when the signature was not made over this hash
\* with this recovery id: a key nobody holds.
JunkKey == "junk"
NoKey == "error"

\* fmt.Sprintf(EthPrefix + "%d%s", len(msgBytes), cleanedMessage) and its
\* Keccak-256 hash; the hash is collision-free, so it is its preimage.
EthMessageHash(cleanedMessage) ==
    << EthPrefix, NumTok(StrLen(cleanedMessage)) >> \o cleanedMessage

\* A signature string: hex text (with or without 0x) of nbytes bytes; the
\* first 64 bytes are the curve signature made by `signer` over `hash`, whose
\* true recovery id is `recid`; the last byte is `v`.
MkSig(has0x, hexOK, nbytes, signer, hash, recid, v) ==
    [has0x |-> has0x, hexOK |-> hexOK, nbytes |-> nbytes,
     signer |-> signer, hash |-> hash, recid |-> recid, v |-> v]

\* What a wallet returns for personal_sign(message) with key k.
PersonalSign(k, message) ==
    MkSig(TRUE, TRUE, SigLen, k, EthMessageHash(message), 0, 27)
\* Text that is not hex at all.
BadSig == MkSig(FALSE, FALSE, 0, NoKey, << >>, 0, 0)

\* No adjustment: the byte as it arrived.
AdjustVNot(v) == v

\* The recovery byte after the "V" adjustment, in 8-bit unsigned arithmetic.
AdjustV(v) ==
    IF v = 27 \/ v = 28 THEN v - 27
    ELSE IF v = 0 \/ v = 1 THEN v
    ELSE IF v >= 35 THEN (v - 35 - 2) % 256
    ELSE IF v >= 27 THEN v - 27
    ELSE 0

\* crypto.SigToPub: recovery ids above 3 are refused; 2 and 3 find no point.
SigToPub(hash, sig, rec) ==
    IF rec \notin {0, 1} THEN NoKey
    ELSE IF sig.signer \in Keys /\ sig.hash = hash /\ sig.recid = rec
         THEN sig.signer
         ELSE JunkKey

\* crypto.PubkeyToAddress(pub).Hex(): the mixed-case checksum rendering.
PubkeyToAddressHex(k) == << AddrTok(k, 1) >>

\* A cleaning that trims the whitespace and leaves the quotes.
TrimOnly(message) == TrimSpace(message)

\* Lines 227-231: trim, drop one pair of enclosing double quotes, trim.
CleanMessage(message) ==
    LET t == TrimSpace(message)
        u == IF StrLen(t) >= 2 /\ t[1] = Quote /\ t[Len(t)] = Quote
             THEN SubSeq(t, 2, Len(t) - 1) ELSE t
    IN TrimSpace(u)

\* The signature text as it arrived.
KeepPrefix(signature) == signature

\* if !strings.HasPrefix(signature, "0x") { signature = "0x" + signature }
Ensure0x(signature) == [signature EXCEPT !.has0x = TRUE]

\* hexutil.Decode: an error unless the text is 0x followed by hex digits.
HexutilDecodeOK(signature) == signature.has0x /\ signature.hexOK

\* A verifier that accepts everything.
VerifyAnything(message, signature, expectedAddress) == TRUE

\* A verifier that consults the users table: it accepts a signature only
\* while the claimed address holds the nonce of the server's start.
VerifyUnrotatedOnly(message, signature, expectedAddress) ==
    /\ expectedAddress \in DOMAIN users
    /\ users[expectedAddress].Nonce = << NonceTok(0) >>
    /\ signature.hexOK /\ signature.nbytes = SigLen
    /\ signature.signer \in Keys
    /\ << AddrTok(signature.signer, 0) >> = [i \in DOMAIN expectedAddress |->
            [expectedAddress[i] EXCEPT !.n = 0]]

VerifyEthereumSignature(message, signature, expectedAddress) ==
    /\ HexutilDecodeOK(Ensure0x(signature))
    /\ signature.nbytes = SigLen
    /\ LET hash == EthMessageHash(CleanMessage(message))
           pub == SigToPub(hash, signature, AdjustV(signature.v))
       IN /\ pub # NoKey
          /\ ToLower(PubkeyToAddressHex(pub)) = ToLower(expectedAddress)

GenerateMessageForSigning(address, nonce) ==
    << LoginPrefix >> \o address \o << NonceInfix >> \o nonce

GenerateDecryptMessage(contentID, nonce) ==
    << DecryptPrefix, NumTok(contentID), NonceInfix >> \o nonce

\* ------------------------------------------------------------------ state
Procs == {"p1", "p2"}
\* The address strings clients use.  Two clients: key A in lower case, key B
\* in checksum case.  One client in two casings: key A in lower case and in
\* upper case.
TwoClients == {AddrTok("A", 0), AddrTok("B", 1)}
TwoCasings == {AddrTok("A", 0), AddrTok("A", 2)}

AddrToks == clientAddrs
AddrStrs == {<< a >> : a \in AddrToks}

\* The nonce address A holds when the server starts, and a nonce a client
\* makes up (the server never issued it).
OldUserNonce == << NonceTok(0) >>
MadeUpNonce == << NonceTok(0 - 1) >>

Idle == [pc |-> "idle"]
\* Worker p1 takes a request when free.  p2 takes one only while p1 is in the
\* middle of a handler working on the same table (`busy`: the positions of p1
\* that conflict with the request), when overlapping is on: handlers on
\* different tables, and handlers of one step, commute with p1's steps, so
\* overlapping them adds no outcome.  For the same reason a request that is
\* answered before it reaches the store is taken by p1 (Early).  One pair of
\* requests overlaps in a run, and it is the last pair of the run.
Admit(p, busy) ==
    /\ proc[p].pc = "idle"
    /\ overlap # "done"
    /\ p = "p2" => (overlap = "on" /\ proc["p1"].pc \in busy)
    /\ overlap' = IF p = "p2" THEN "done" ELSE overlap

Early(p) == p = "p1"

GenerateNonce == << NonceTok(nonceCtr + 1) >>
CanGenerate == nonceCtr < MaxNonce

\* models.User
User(address, publicKey, nonce) ==
    [Address |-> address, PublicKey |-> publicKey, Nonce |-> nonce]

\* db.Where("address = ?", a).First(&user): exact string match.
UserFound(address) == address \in DOMAIN users

\* An index without the uniqueness constraint.
NoUniqueIndex(address) == FALSE

\* gorm:"uniqueIndex" on users.address: an insert of a second row with the
\* same address string is refused.
UniqueViolation(address) == UserFound(address)

\* The row count of the address after one more insert.
RowInserted(address) ==
    IF address \in DOMAIN userRows
    THEN [userRows EXCEPT ![address] = @ + 1]
    ELSE (address :> 1) @@ userRows

\* db.Save(&user): the whole row is written back under its primary key.
SaveUser(user) == [users EXCEPT ![user.Address] = user]

NoReq == [none |-> TRUE]
Response(op, status, error, req, body, case) ==
    [op |-> op, status |-> status, error |-> error, req |-> req,
     body |-> body, case |-> case]

\* The request answered by the latest response, when that was a 200 of `op`.
Replayable(op) == IF last.op = op /\ last.status = 200 THEN {last.req} ELSE {}

\* ------------------------------------------------------------------ login
\* models.LoginRequest
LoginRequest(address, signature, message, nonce) ==
    [Address |-> address, Signature |-> signature, Message |-> message,
     Nonce |-> nonce]

\* ShouldBindJSON: every field is binding:"required", so none may be empty.
LoginBindOK(req) ==
    /\ req.Address # EmptyStr
    /\ req.Message # EmptyStr
    /\ req.Nonce # EmptyStr

\* What clients submit: for each address and either signing key, the login
\* challenge over the nonce now stored for the address or a free text; the
\* request just accepted once more; one body with an unusable signature and
\* one with a missing field.
LoginRequests ==
    {LoginRequest(a, PersonalSign(k, GenerateMessageForSigning(a, users[a].Nonce)),
                  GenerateMessageForSigning(a, users[a].Nonce), users[a].Nonce) :
        a \in DOMAIN users, k \in Keys}
    \cup {LoginRequest(a, PersonalSign(k, Hello), Hello, MadeUpNonce) :
        a \in AddrStrs, k \in Keys}
    \cup Replayable("login")
    \cup {LoginRequest(<< AddrTok("A", 0) >>, BadSig, Hello, MadeUpNonce),
          LoginRequest(<< AddrTok("A", 0) >>, PersonalSign("A", Hello), Hello, EmptyStr)}

\* token := req.Address + ":" + newNonce
Token(address, nonce) == address \o << Colon >> \o nonce

\* The signature is the wallet signature of the key behind `address` over the
\* message (as the verifier cleans it).
OwnSignature(address, message, signature) ==
    /\ signature.signer \in Keys
    /\ signature = PersonalSign(signature.signer, CleanMessage(message))
    /\ address \in {<< AddrTok(signature.signer, f) >> : f \in 0..2}

\* What was the case when the request was looked up (history, read by the
\* properties only).
LoginCase(req) ==
    [existed |-> req.Address \in DOMAIN users,
     \* a required field is missing
     malformed |-> EmptyStr \in {req.Address, req.Message, req.Nonce},
     \* the signature is the claimed address's own, over the submitted message
     signed |-> OwnSignature(req.Address, req.Message, req.Signature),
     \* the message is the login challenge over the nonce stored for the address
     canonical |-> /\ req.Address \in DOMAIN users
                   /\ req.Message =
                        GenerateMessageForSigning(req.Address, users[req.Address].Nonce),
     \* the very request that was just answered 200
     replay |-> req \in Replayable("login"),
     \* db.Save of the rotated nonce: "none" not reached, "ok", "failed"
     saved |-> "none"]

\* Lines 443-481: bind, verify, look the user up.
LoginHandler(p) ==
    /\ Admit(p, {"login_create", "login_save", "register_save"})
    /\ \E req \in LoginRequests, dbOK \in BOOLEAN :
        LET found == UserFound(req.Address)
            fail(status, error) ==
                /\ Early(p)
                /\ last' = Response("login", status, error, NoReq, EmptyStr, LoginCase(req))
                /\ UNCHANGED proc
        IN /\ IF ~LoginBindOK(req) THEN fail(400, "Invalid request format")
              ELSE IF ~VerifyEthereumSignature(req.Message, req.Signature, req.Address)
              THEN fail(401, "Invalid signature")
              ELSE IF ~dbOK THEN fail(500, "Database error")
              ELSE /\ proc' = [proc EXCEPT ![p] =
                         [pc |-> IF found THEN "login_save" ELSE "login_create",
                          req |-> req, case |-> LoginCase(req),
                          user |-> IF found THEN users[req.Address]
                                   ELSE User(req.Address, EmptyStr, EmptyStr)]]
                   /\ UNCHANGED last
           /\ UNCHANGED << users, contents, nonceCtr, tokens >>
    /\ UNCHANGED << clientAddrs, userRows, verified >>

\* Lines 462-477: the user was not found; create it with a fresh nonce.
\* db.Create fails when the store fails or the address exists by now
\* (uniqueIndex).
LoginCreate(p) ==
    /\ proc[p].pc = "login_create"
    /\ CanGenerate
    /\ \E genOK \in BOOLEAN, dbOK \in BOOLEAN :
        LET me == proc[p]
            user == User(me.req.Address, EmptyStr, GenerateNonce)
            fail(error) ==
                /\ last' = Response("login", 500, error, NoReq, EmptyStr, me.case)
                /\ proc' = [proc EXCEPT ![p] = Idle]
                /\ UNCHANGED << users, nonceCtr, userRows >>
        IN /\ IF ~genOK THEN fail("Failed to generate nonce")
              ELSE IF ~dbOK \/ UniqueViolation(me.req.Address)
              THEN fail("Failed to create user")
              ELSE /\ users' = (me.req.Address :> user) @@ users
                   /\ userRows' = RowInserted(me.req.Address)
                   /\ nonceCtr' = nonceCtr + 1
                   /\ proc' = [proc EXCEPT ![p] = [me EXCEPT !.pc = "login_save",
                                                             !.user = user]]
                   /\ UNCHANGED last
           /\ UNCHANGED << contents, overlap, tokens >>
    /\ UNCHANGED << clientAddrs, verified >>

\* Lines 483-500: rotate the nonce, save, answer with the token.  The result
\* of db.Save is not looked at.
LoginSave(p) ==
    /\ proc[p].pc = "login_save"
    /\ CanGenerate
    /\ \E genOK \in BOOLEAN, dbOK \in BOOLEAN :
        LET me == proc[p]
            newNonce == GenerateNonce
            user == [me.user EXCEPT !.Nonce = newNonce]
            token == Token(me.req.Address, newNonce)
        IN /\ proc' = [proc EXCEPT ![p] = Idle]
           /\ IF ~genOK
              THEN /\ last' = Response("login", 500, "Failed to generate nonce",
                                       NoReq, EmptyStr, me.case)
                   /\ UNCHANGED << users, nonceCtr, tokens >>
              ELSE /\ nonceCtr' = nonceCtr + 1
                   /\ users' = IF dbOK THEN SaveUser(user) ELSE users
                   /\ last' = Response("login", 200, "", me.req, token,
                                [me.case EXCEPT !.saved = IF dbOK THEN "ok" ELSE "failed"])
                   /\ tokens' = tokens \cup {token}
           /\ UNCHANGED << contents, overlap >>
    /\ UNCHANGED << clientAddrs, userRows, verified >>

\* ------------------------------------------------------------------ nonce
\* GET /nonce?address=...: the query parameter, possibly absent.
NonceQueries == {EmptyStr} \cup AddrStrs

\* What was the case when the query was answered (history, read by the
\* properties only): the store had a row for the address; the latest
\* response answered the same query; it carried the same nonce.
NonceCase(address, nonce) ==
    LET again == last.op = "nonce" /\ last.status = 200 /\ last.req = address
    IN [existed |-> UserFound(address),
        again |-> again,
        agree |-> again /\ last.body = nonce]

\* Lines 538-567.  For an address without a row a nonce is generated and
\* returned; no row is written.
GetNonceHandler(p) ==
    /\ Admit(p, {})
    /\ \E address \in NonceQueries, dbOK \in BOOLEAN, genOK \in BOOLEAN :
        LET answer(status, error, req, body) ==
                last' = Response("nonce", status, error, req, body,
                                 NonceCase(address, body))
        IN IF address = EmptyStr
           THEN answer(400, "Address is required", NoReq, EmptyStr)
                /\ UNCHANGED nonceCtr
           ELSE IF ~dbOK
           THEN answer(500, "Database error", NoReq, EmptyStr) /\ UNCHANGED nonceCtr
           ELSE IF UserFound(address)
           THEN answer(200, "", address, users[address].Nonce) /\ UNCHANGED nonceCtr
           ELSE IF ~genOK
           THEN answer(500, "Failed to generate nonce", NoReq, EmptyStr)
                /\ UNCHANGED nonceCtr
           ELSE /\ CanGenerate
                /\ answer(200, "", address, GenerateNonce)
                /\ nonceCtr' = nonceCtr + 1
    /\ UNCHANGED << users, contents, proc, tokens >>
    /\ UNCHANGED << clientAddrs, userRows, verified >>

\* --------------------------------------------------------------- register
\* models.RegisterPublicKeyRequest
RegisterPublicKeyRequest(address, publicKey, signature, message) ==
    [Address |-> address, PublicKey |-> publicKey, Signature |-> signature,
     Message |-> message]

\* ShouldBindJSON: every field is binding:"required", so none may be empty.
RegisterBindOK(req) ==
    /\ req.Address # EmptyStr
    /\ req.PublicKey # EmptyStr
    /\ req.Message # EmptyStr

PublicKey1 == << Lit("pk1") >>

\* What clients submit: for each address and either signing key, the login
\* challenge over the nonce now stored for the address or a free text; the
\* request just accepted once more; one body with a missing field.
RegisterRequests ==
    {RegisterPublicKeyRequest(a, PublicKey1,
        PersonalSign(k, GenerateMessageForSigning(a, users[a].Nonce)),
        GenerateMessageForSigning(a, users[a].Nonce)) : a \in DOMAIN users, k \in Keys}
    \cup {RegisterPublicKeyRequest(a, PublicKey1, PersonalSign(k, Hello), Hello) :
            a \in AddrStrs, k \in Keys}
    \cup Replayable("register")
    \cup {RegisterPublicKeyRequest(<< AddrTok("A", 0) >>, EmptyStr,
                                   PersonalSign("A", Hello), Hello)}

\* What was the case when the request was looked up (history, read by the
\* properties only).
RegisterCase(req) ==
    [existed |-> req.Address \in DOMAIN users,
     \* the message is the challenge over the nonce stored for the address
     canonical |-> /\ req.Address \in DOMAIN users
                   /\ req.Message =
                        GenerateMessageForSigning(req.Address, users[req.Address].Nonce),
     \* the signature is the claimed address's own, over the submitted message
     signed |-> OwnSignature(req.Address, req.Message, req.Signature)]

\* A row that keeps its public key.
WithPublicKeyKept(user, publicKey) == user

\* user.PublicKey = req.PublicKey
WithPublicKey(user, publicKey) == [user EXCEPT !.PublicKey = publicKey]

\* Lines 504-525: bind, verify, look the user up (any lookup error: 404).
RegisterPublicKeyHandler(p) ==
    /\ Admit(p, {"login_create", "login_save", "register_save"})
    /\ \E req \in RegisterRequests, dbOK \in BOOLEAN :
        LET fail(status, error) ==
                /\ Early(p)
                /\ last' = Response("register", status, error, NoReq, EmptyStr,
                                    RegisterCase(req))
                /\ UNCHANGED proc
        IN IF ~RegisterBindOK(req) THEN fail(400, "Invalid request format")
           ELSE IF ~VerifyEthereumSignature(req.Message, req.Signature, req.Address)
           THEN fail(401, "Invalid signature")
           ELSE IF ~dbOK \/ ~UserFound(req.Address) THEN fail(404, "User not found")
           ELSE /\ proc' = [proc EXCEPT ![p] =
                      [pc |-> "register_save", req |-> req, case |-> RegisterCase(req),
                       user |-> users[req.Address]]]
                /\ UNCHANGED last
    /\ UNCHANGED << users, contents, nonceCtr, tokens >>
    /\ UNCHANGED << clientAddrs, userRows, verified >>

\* Lines 527-534: set the public key, save, answer.
RegisterSave(p) ==
    /\ proc[p].pc = "register_save"
    /\ \E dbOK \in BOOLEAN :
        LET me == proc[p]
            user == WithPublicKey(me.user, me.req.PublicKey)
        IN /\ proc' = [proc EXCEPT ![p] = Idle]
           /\ IF ~dbOK
              THEN /\ last' = Response("register", 500, "Failed to save public key",
                                       NoReq, EmptyStr, me.case)
                   /\ UNCHANGED users
              ELSE /\ users' = SaveUser(user)
                   /\ last' = Response("register", 200, "", me.req, EmptyStr, me.case)
    /\ UNCHANGED << contents, nonceCtr, overlap, tokens >>
    /\ UNCHANGED << clientAddrs, userRows, verified >>

\* ---------------------------------------------------------------- content
\* models.EncryptedContent (ID is the row's index in `contents`)
EncryptedContent(id, userAddress, title, data, key, iv, nonce) ==
    [ID |-> id, UserAddress |-> userAddress, Title |-> title,
     EncryptedData |-> data, EncryptedKey |-> key, IV |-> iv, Nonce |-> nonce]

\* A write-back that blanks the IV of the row.
SaveContentWithoutIV(content) ==
    [contents EXCEPT ![content.ID] = [content EXCEPT !.IV = EmptyStr]]

\* db.Save(&content): the whole row is written back under its primary key.
SaveContent(content) == [contents EXCEPT ![content.ID] = content]

\* The Authorization values clients send: nothing, a bare address, or the
\* first token Login emitted for an address (a client that logged in once and
\* keeps its token).
FirstTokens ==
    {t \in tokens : \A u \in tokens :
        Truncate42(u) = Truncate42(t) => u[Len(u)].n >= t[Len(t)].n}
Headers == {EmptyStr} \cup AddrStrs \cup FirstTokens

\* The Authorization value taken whole as the address.
WholeHeader(authHeader) == authHeader

\* userAddress = authHeader, cut to its first 42 characters
UserAddressOf(authHeader) == Truncate42(authHeader)

\* What was the case for the Authorization value (history, read by the
\* properties only): Login emitted it; Login emitted it, later emitted another
\* token for the same address, and the address now holds another nonce.
HeaderCase(authHeader) ==
    [emitted |-> authHeader \in tokens,
     stale |-> /\ authHeader \in tokens
               /\ \E t \in tokens : /\ Truncate42(t) = Truncate42(authHeader)
                                    /\ t[Len(t)].n > authHeader[Len(authHeader)].n
               /\ UserFound(Truncate42(authHeader))
               /\ users[Truncate42(authHeader)].Nonce # << authHeader[Len(authHeader)] >>]
ContentCase(authHeader) == [header |-> HeaderCase(authHeader)]

\* models.CreateContentRequest
CreateContentRequest(title, key, iv, data) ==
    [Title |-> title, EncryptedKey |-> key, IV |-> iv, EncryptedData |-> data]

Envelope1 ==
    CreateContentRequest(<< Lit("t1") >>, << Lit("k1") >>, << Lit("iv1") >>, << Lit("c1") >>)
Envelope2 ==
    CreateContentRequest(<< Lit("t2") >>, << Lit("k2") >>, << Lit("iv2") >>, << Lit("c2") >>)
CreateRequests == {Envelope1, Envelope2, [Envelope1 EXCEPT !.EncryptedData = EmptyStr]}

\* ShouldBindJSON: binding:"required" on every field, max=100 on the title.
CreateBindOK(req) ==
    /\ req.Title # EmptyStr /\ StrLen(req.Title) <= 100
    /\ req.EncryptedKey # EmptyStr
    /\ req.IV # EmptyStr
    /\ req.EncryptedData # EmptyStr

\* Lines 14-73.
CreateContentHandler(p) ==
    /\ Admit(p, {})
    /\ Len(contents) < MaxContents
    /\ CanGenerate
    /\ \E req \in CreateRequests, authHeader \in Headers :
        LET userAddress == UserAddressOf(authHeader)
            id == Len(contents) + 1
            content == EncryptedContent(id, userAddress, req.Title, req.EncryptedData,
                                        req.EncryptedKey, req.IV, GenerateNonce)
            fail(status, error) ==
                /\ last' = Response("create", status, error, NoReq, EmptyStr,
                                    ContentCase(authHeader))
                /\ UNCHANGED << contents, nonceCtr >>
        IN IF ~CreateBindOK(req) THEN fail(400, "Invalid request format")
           ELSE IF authHeader = EmptyStr THEN fail(401, "Missing authorization header")
           ELSE \E userOK \in BOOLEAN, genOK \in BOOLEAN, dbOK \in BOOLEAN :
                IF ~userOK \/ ~UserFound(userAddress) THEN fail(401, "User not found")
                ELSE IF ~genOK THEN fail(500, "Failed to generate nonce")
                ELSE IF ~dbOK THEN fail(500, "Failed to save content")
                ELSE /\ contents' = Append(contents, content)
                     /\ nonceCtr' = nonceCtr + 1
                     /\ last' = Response("create", 200, "", req, << NumTok(id) >>,
                                         ContentCase(authHeader))
    /\ UNCHANGED << users, proc, tokens >>
    /\ UNCHANGED << clientAddrs, userRows, verified >>

\* db.Where("user_address = ?", a).Order("created_at DESC"): newest first.
RECURSIVE ContentsOf(_, _)
ContentsOf(userAddress, n) ==
    IF n = 0 THEN << >>
    ELSE (IF contents[n].UserAddress = userAddress
          THEN << [ID |-> n, Title |-> contents[n].Title] >> ELSE << >>)
         \o ContentsOf(userAddress, n - 1)

\* Lines 76-115.
ListContentHandler(p) ==
    /\ Admit(p, {})
    /\ \E authHeader \in Headers :
        LET userAddress == UserAddressOf(authHeader)
            answer(status, error, body) ==
                last' = Response("list", status, error, NoReq, body, ContentCase(authHeader))
        IN IF authHeader = EmptyStr THEN answer(401, "Missing authorization header", << >>)
           ELSE \E dbOK \in BOOLEAN :
                IF ~dbOK THEN answer(500, "Failed to fetch content", << >>)
                ELSE answer(200, "", ContentsOf(userAddress, Len(contents)))
    /\ UNCHANGED << users, contents, nonceCtr, proc, tokens >>
    /\ UNCHANGED << clientAddrs, userRows, verified >>

\* A lookup by id alone.
ContentFoundAnyOwner(id, userAddress) == id \in 1..Len(contents)

\* db.Where("id = ? AND user_address = ?", id, a).First(&content)
ContentFound(id, userAddress) ==
    /\ id \in 1..Len(contents)
    /\ contents[id].UserAddress = userAddress

\* An answer that carries a nonce the record does not hold.
DetailAnswerStale(contentID, authHeader, dbOK) ==
    IF contentID # EmptyStr /\ authHeader # EmptyStr /\ dbOK
       /\ ContentFound(contentID[1].n, UserAddressOf(authHeader))
    THEN << 200, "", MadeUpNonce >>
    ELSE << 404, "Content not found", EmptyStr >>

\* Lines 192-236: the answer as (status, error, nonce).  The id is the path
\* parameter, a decimal string; dbOK: the record query itself did not fail.
DetailAnswer(contentID, authHeader, dbOK) ==
    IF contentID = EmptyStr THEN << 400, "Content ID is required", EmptyStr >>
    ELSE IF authHeader = EmptyStr
    THEN << 401, "Missing authorization header", EmptyStr >>
    ELSE IF ~dbOK THEN << 500, "Failed to fetch content", EmptyStr >>
    ELSE IF ~ContentFound(contentID[1].n, UserAddressOf(authHeader))
    THEN << 404, "Content not found", EmptyStr >>
    ELSE << 200, "", contents[contentID[1].n].Nonce >>

\* Lines 192-236.
GetContentDetailHandler(p) ==
    /\ Admit(p, {})
    /\ \E contentID \in {EmptyStr} \cup {<< NumTok(i) >> : i \in 1..(Len(contents) + 1)},
          authHeader \in Headers, dbOK \in BOOLEAN :
        LET answer == DetailAnswer(contentID, authHeader, dbOK)
        IN last' = Response("detail", answer[1], answer[2], NoReq, answer[3],
                            ContentCase(authHeader))
    /\ UNCHANGED << users, contents, nonceCtr, proc, tokens >>
    /\ UNCHANGED << clientAddrs, userRows, verified >>

\* ---------------------------------------------------------------- decrypt
\* models.DecryptContentRequest
DecryptContentRequest(contentID, signature, message, nonce) ==
    [ContentID |-> contentID, Signature |-> signature, Message |-> message,
     Nonce |-> nonce]

\* ShouldBindJSON: every field is binding:"required"; a uint of 0 is missing.
DecryptBindOK(req) ==
    /\ req.ContentID # 0
    /\ req.Message # EmptyStr
    /\ req.Nonce # EmptyStr

\* A decrypt call: the Authorization header and the JSON body.
DecryptCall(authHeader, req) == [Authorization |-> authHeader, req |-> req]

\* The calls over headers H, ids I and nonces N: the decrypt challenge for
\* (id, nonce) signed by either key, a free text in the message field.
SignedDecryptCalls(H, I, N) ==
    {DecryptCall(h, DecryptContentRequest(i, PersonalSign(k, GenerateDecryptMessage(i, n)),
                                          Hello, n)) :
        h \in H, k \in Keys, i \in I, n \in N}

\* What clients submit: for a record id (present or not), the challenge over
\* the record's stored nonce or over a made-up one; the call just accepted
\* once more; one body with an unusable signature and one with a missing
\* field.
DecryptCalls ==
    SignedDecryptCalls(Headers, 1..(Len(contents) + 1),
                       {contents[j].Nonce : j \in 1..Len(contents)} \cup {MadeUpNonce})
    \cup Replayable("decrypt")
    \cup {DecryptCall(<< AddrTok("A", 0) >>,
                      DecryptContentRequest(1, BadSig, Hello, MadeUpNonce)),
          DecryptCall(<< AddrTok("A", 0) >>,
                      DecryptContentRequest(0, PersonalSign("A", Hello), Hello, MadeUpNonce))}

\* The key that made the signature, if it is a wallet signature over the
\* decrypt challenge for (id, nonce); NoKey otherwise.
ChallengeSigner(req) ==
    IF /\ req.Signature.signer \in Keys
       /\ req.Signature =
            PersonalSign(req.Signature.signer, GenerateDecryptMessage(req.ContentID, req.Nonce))
    THEN req.Signature.signer ELSE NoKey

\* What was the case when the call was looked up (history, read by the
\* properties only).
DecryptCase(call) ==
    LET req == call.req
        who == UserAddressOf(call.Authorization)
        exists == req.ContentID \in 1..Len(contents)
    IN [exists |-> exists,
        owned |-> exists /\ contents[req.ContentID].UserAddress = who,
        signed |-> /\ ChallengeSigner(req) # NoKey
                   /\ who \in {<< AddrTok(ChallengeSigner(req), f) >> : f \in 0..2},
        nonceMatch |-> exists /\ contents[req.ContentID].Nonce = req.Nonce,
        \* the latest response released this record for this very nonce
        replay |-> \E r \in Replayable("decrypt") :
                      /\ r.req.ContentID = req.ContentID
                      /\ r.req.Nonce = req.Nonce,
        raced |-> FALSE,
        committed |-> FALSE,
        \* db.Save of the rotated nonce: "none" not reached, "ok", "failed"
        saved |-> "none",
        header |-> HeaderCase(call.Authorization)]

\* A comparison that lets every nonce through.
NonceMismatchNever(content, req) == FALSE

\* content.Nonce != req.Nonce
NonceMismatch(content, req) == content.Nonce # req.Nonce

Pass == << 0, "" >>

\* Lines 118-164: the first check a call fails, as (status, error); Pass when
\* it fails none.  dbOK: the record query itself did not fail.
DecryptReject(call, dbOK) ==
    LET req == call.req
        userAddress == UserAddressOf(call.Authorization)
        expectedMessage == GenerateDecryptMessage(req.ContentID, req.Nonce)
    IN IF ~DecryptBindOK(req) THEN << 400, "Invalid request format" >>
       ELSE IF call.Authorization = EmptyStr
       THEN << 401, "Missing authorization header" >>
       ELSE IF ~VerifyEthereumSignature(expectedMessage, req.Signature, userAddress)
       THEN << 401, "Invalid signature" >>
       ELSE IF ~dbOK THEN << 500, "Failed to fetch content" >>
       ELSE IF ~ContentFound(req.ContentID, userAddress)
       THEN << 404, "Content not found" >>
       ELSE IF NonceMismatch(contents[req.ContentID], req)
       THEN << 401, "Invalid nonce" >>
       ELSE Pass

\* Lines 118-164: bind, header, verify, fetch the record, compare the nonce.
DecryptContentHandler(p) ==
    /\ Admit(p, {"decrypt_save"})
    /\ \E call \in DecryptCalls, dbOK \in BOOLEAN :
        LET verdict == DecryptReject(call, dbOK)
        IN IF verdict # Pass
           THEN /\ Early(p)
                /\ last' = Response("decrypt", verdict[1], verdict[2], NoReq, EmptyStr,
                                    DecryptCase(call))
                /\ UNCHANGED proc
           ELSE /\ proc' = [proc EXCEPT ![p] =
                      [pc |-> "decrypt_save", call |-> call,
                       content |-> contents[call.req.ContentID],
                       case |-> DecryptCase(call)]]
                /\ UNCHANGED last
    /\ UNCHANGED << users, contents, nonceCtr, tokens >>
    /\ UNCHANGED << clientAddrs, userRows, verified >>

\* Another worker holds a decrypt call for the same record and nonce that
\* has passed the nonce comparison.  When p releases the envelope and its
\* rotation is stored, the rival's call is marked as raced.
Rival(p, q) ==
    /\ q # p
    /\ proc[q].pc = "decrypt_save"
    /\ proc[q].call.req.ContentID = proc[p].call.req.ContentID
    /\ proc[q].call.req.Nonce = proc[p].call.req.Nonce

\* Lines 166-188: rotate the nonce, save, release the envelope.  The result
\* of db.Save is not looked at.
DecryptSave(p) ==
    /\ proc[p].pc = "decrypt_save"
    /\ CanGenerate
    /\ \E genOK \in BOOLEAN :
        LET me == proc[p]
            newNonce == GenerateNonce
            content == [me.content EXCEPT !.Nonce = newNonce]
            body == [encrypted_data |-> content.EncryptedData,
                     encrypted_key |-> content.EncryptedKey,
                     iv |-> content.IV]
        IN IF ~genOK
           THEN /\ last' = Response("decrypt", 500, "Failed to generate nonce",
                                    NoReq, EmptyStr, me.case)
                /\ proc' = [proc EXCEPT ![p] = Idle]
                /\ UNCHANGED << contents, nonceCtr >>
           ELSE \E dbOK \in BOOLEAN :
                /\ contents' = IF dbOK THEN SaveContent(content) ELSE contents
                /\ nonceCtr' = IF dbOK THEN nonceCtr + 1 ELSE nonceCtr
                /\ last' = Response("decrypt", 200, "", me.call, body,
                             [me.case EXCEPT
                                !.committed = contents'[content.ID].Nonce = newNonce,
                                !.saved = IF dbOK THEN "ok" ELSE "failed"])
                /\ proc' = [q \in Procs |->
                             IF q = p THEN Idle
                             ELSE IF Rival(p, q) /\ dbOK
                                  THEN [proc[q] EXCEPT !.case.raced = TRUE]
                                  ELSE proc[q]]
    /\ UNCHANGED << users, overlap, tokens >>
    /\ UNCHANGED << clientAddrs, userRows, verified >>

\* ------------------------------------------------------------- verification
\* The arguments of one call of VerifyEthereumSignature.
VerifyInput(message, signature, expectedAddress) ==
    [Message |-> message, Signature |-> signature, Address |-> expectedAddress]

\* The calls made on `input` so far: how many, the result of the latest, the
\* byte the latest passed to public-key recovery (NoByte when it returned
\* before recovery), and whether the users table had changed between the
\* latest call and the one before it; and the message the latest call hashed.
NoByte == 0 - 1
NoCall(input) ==
    [input |-> input, calls |-> 0, result |-> FALSE, rec |-> NoByte,
     store |-> users, moved |-> FALSE, cleaned |-> EmptyStr]

\* A 65-byte hex signature made by key k over "foo", with true recovery id
\* recid and last byte v.
SigOverFoo(k, recid, v) == MkSig(TRUE, TRUE, SigLen, k, EthMessageHash(Foo), recid, v)

\* Every value of the last byte, for either recovery id.
ParityInputs ==
    {VerifyInput(Foo, SigOverFoo("A", recid, v), << AddrTok("A", 0) >>) :
        recid \in {0, 1}, v \in 0..255}

\* Signature texts with and without the 0x prefix, hex or not, of 0, 64, 65
\* and 66 bytes.
EncodingInputs ==
    {VerifyInput(Foo, MkSig(has0x, hexOK, nbytes, "A", EthMessageHash(Foo), 0, 27),
                 << AddrTok("A", 0) >>) :
        has0x \in BOOLEAN, hexOK \in BOOLEAN, nbytes \in {0, SigLen - 1, SigLen, SigLen + 1}}

\* "foo" as signed, with a trailing or leading space, and in double quotes;
\* the claimed address in each letter case; either wallet as signer; the last
\* byte in the legacy and the canonical convention.
MessageInputs ==
    {VerifyInput(message, SigOverFoo(k, recid, v), << AddrTok(a, form) >>) :
        message \in {Foo, Foo \o << Space >>, << Space >> \o Foo,
                     << Quote >> \o Foo \o << Quote >>},
        k \in Keys, recid \in {0, 1}, v \in {0, 1, 27, 28},
        a \in Keys, form \in {0, 1, 2}}

\* m in one pair of double quotes, and with a space on either side.
Quoted(m) == << Quote >> \o m \o << Quote >>
Padded(m) == << Space >> \o m \o << Space >>

\* "foo", " foo " and a lone double quote, bare and under up to two layers of
\* quoting and padding, against wallet A's signature over "foo", over "foo"
\* in quotes and over "foo" in two pairs of quotes.
Wrappings(M) == M \cup {Quoted(m) : m \in M} \cup {Padded(m) : m \in M}
QuotingInputs ==
    {VerifyInput(message,
                 MkSig(TRUE, TRUE, SigLen, "A", EthMessageHash(signed), 0, 27),
                 << AddrTok("A", 0) >>) :
        message \in Wrappings(Wrappings(Wrappings({Foo, Padded(Foo), << Quote >>}))),
        signed \in {Foo, Quoted(Foo), Quoted(Quoted(Foo))}}

VerifyInputs == ParityInputs \cup EncodingInputs \cup MessageInputs \cup QuotingInputs

\* Inputs to repeat while Login requests change the users table: wallet B's
\* signature for B's address (no row yet), for A's address, and wallet A's
\* signature for A's address.
StoreProbes ==
    {VerifyInput(Foo, SigOverFoo("B", 0, 27), << AddrTok("B", 1) >>),
     VerifyInput(Foo, SigOverFoo("B", 0, 27), << AddrTok("A", 0) >>),
     VerifyInput(Foo, SigOverFoo("A", 0, 27), << AddrTok("A", 0) >>)}

\* The number of calls made on one input.
MaxCalls == 2

\* The byte VerifyEthereumSignature hands to crypto.SigToPub (lines 238-266).
RecoveryByte(signature) ==
    IF HexutilDecodeOK(Ensure0x(signature)) /\ signature.nbytes = SigLen
    THEN AdjustV(signature.v) ELSE NoByte

\* One call of VerifyEthereumSignature on the input.
VerifyStep ==
    /\ verified.calls < MaxCalls
    /\ verified' =
         [input |-> verified.input,
          calls |-> verified.calls + 1,
          result |-> VerifyEthereumSignature(verified.input.Message,
                                             verified.input.Signature,
                                             verified.input.Address),
          rec |-> RecoveryByte(verified.input.Signature),
          store |-> users,
          moved |-> verified.calls >= 1 /\ verified.store # users,
          cleaned |-> CleanMessage(verified.input.Message)]
    /\ UNCHANGED << users, contents, nonceCtr, proc, last, overlap, tokens,
                    clientAddrs, userRows >>

\* ------------------------------------------------------------ specification
\* The store when the server starts: address A has logged in once (and holds
\* the token of that login); no record is stored yet.
InitStore ==
    /\ users = (<< AddrTok("A", 0) >> :>
                  User(<< AddrTok("A", 0) >>, EmptyStr, OldUserNonce))
    /\ contents = << >>
    /\ nonceCtr = 0
    /\ proc = [p \in Procs |-> Idle]
    /\ last = Response("none", 0, "", NoReq, EmptyStr, NoReq)
    /\ tokens = {Token(<< AddrTok("A", 0) >>, OldUserNonce)}
    /\ userRows = (<< AddrTok("A", 0) >> :> 1)

InitCommon == InitStore /\ clientAddrs = TwoClients /\ verified = NoCall(NoReq)

Init == InitCommon /\ overlap = "on"
InitSerial == InitCommon /\ overlap = "off"

Next ==
    \E p \in Procs :
        \/ LoginHandler(p)
        \/ LoginCreate(p)
        \/ LoginSave(p)
        \/ CreateContentHandler(p)
        \/ ListContentHandler(p)
        \/ GetContentDetailHandler(p)
        \/ DecryptContentHandler(p)
        \/ DecryptSave(p)

Spec == Init /\ [][Next]_vars
SpecSerial == InitSerial /\ [][Next]_vars

\* The identity endpoints alone: nonce, login, public key.
NextIdentity ==
    \E p \in Procs :
        \/ GetNonceHandler(p)
        \/ LoginHandler(p)
        \/ LoginCreate(p)
        \/ LoginSave(p)
        \/ RegisterPublicKeyHandler(p)
        \/ RegisterSave(p)

SpecIdentity == Init /\ [][NextIdentity]_vars
SpecIdentitySerial == InitSerial /\ [][NextIdentity]_vars

\* The verifier alone, called on one input.
InitVerify ==
    /\ InitStore /\ clientAddrs = TwoClients /\ overlap = "off"
    /\ \E input \in VerifyInputs : verified = NoCall(input)
NextVerify == VerifyStep
SpecVerify == InitVerify /\ [][NextVerify]_vars

\* The verifier called on one input while Login requests are served.
InitVerifyStore ==
    /\ InitStore /\ clientAddrs = TwoClients /\ overlap = "off"
    /\ \E input \in StoreProbes : verified = NoCall(input)
NextVerifyStore ==
    \/ VerifyStep
    \/ \E p \in Procs : LoginHandler(p) \/ LoginCreate(p) \/ LoginSave(p)
SpecVerifyStore == InitVerifyStore /\ [][NextVerifyStore]_vars

\* One wallet whose client writes its address in lower case in some requests
\* and in upper case in others; requests one at a time.
InitCasing ==
    InitStore /\ clientAddrs = TwoCasings /\ overlap = "off" /\ verified = NoCall(NoReq)
SpecCasing == InitCasing /\ [][Next]_vars

\* ------------------------------------------------------------- properties
ContentOps == {"create", "list", "detail", "decrypt"}
Released == last.op = "decrypt" /\ last.status = 200
LoggedIn == last.op = "login" /\ last.status = 200

\* C1: once a decrypt has released a record for nonce r0, a following decrypt
\* request for that record that presents r0 again is rejected.
C1_DecryptReplayRejected ==
    (last.op = "decrypt" /\ last.case.replay) => last.status # 200

\* C2: a login request that repeats the (address, message, signature, nonce)
\* of the login just accepted is answered 401.
C2_LoginReplayUnauthorized ==
    (last.op = "login" /\ last.case.replay) => last.status = 401

\* C3: of two overlapping decrypt requests for the same record and the same
\* nonce, at most one releases the envelope: none is released to a request
\* whose rival has already been released.
C3_NoDoubleRelease == ~(Released /\ last.case.raced)

\* C4: a login is accepted only when its message is the login challenge for
\* the address and the nonce stored for that address at the time of the
\* request.
C4_LoginOnlyCanonical == LoggedIn => last.case.canonical

\* C5: a login for an address the store does not know is rejected (the
\* identity is created, no token is handed out).
C5_UnknownAddressRejected ==
    (last.op = "login" /\ ~last.case.existed) => last.status # 200

\* C6: a content operation is accepted only when its Authorization value is
\* a token that Login emitted.
C6_CredentialEmitted ==
    (last.op \in ContentOps /\ last.status = 200) => last.case.header.emitted

\* C7: a content operation that presents a token whose address has since
\* logged in again and holds another nonce is rejected.
C7_StaleCredentialRejected ==
    (last.op \in ContentOps /\ last.case.header.stale) => last.status # 200

\* C8: the envelope is released only when, at the time the record was looked
\* up, the record existed and was owned by the claimed address, the signature
\* was that address's signature over the server-built decrypt challenge for
\* (id, nonce), and the presented nonce was the record's stored nonce; every
\* in-flight call that has passed the checks is such a call.
C8_ReleaseOnlyAuthorized ==
    /\ Released =>
        /\ last.case.owned /\ last.case.signed /\ last.case.nonceMatch
        /\ last.body = [encrypted_data |-> contents[last.req.req.ContentID].EncryptedData,
                        encrypted_key |-> contents[last.req.req.ContentID].EncryptedKey,
                        iv |-> contents[last.req.req.ContentID].IV]
    /\ \A p \in Procs : proc[p].pc = "decrypt_save" =>
        proc[p].case.owned /\ proc[p].case.signed /\ proc[p].case.nonceMatch

\* A record was released to its owner, on a signature over the server-built
\* challenge, while the message field of the request held another text.
C8_Witness ==
    /\ Released
    /\ last.case.owned /\ last.case.signed /\ last.case.nonceMatch
    /\ last.req.req.Message #
         GenerateDecryptMessage(last.req.req.ContentID, last.req.req.Nonce)

\* C9: when the envelope is released, the record's stored nonce is the newly
\* generated one, which differs from the presented nonce.
C9_RotationCommitted ==
    Released =>
        /\ last.case.committed
        /\ contents[last.req.req.ContentID].Nonce # last.req.req.Nonce

\* The decrypt call under header h for record id, presenting nonce n, signed
\* by key k over the challenge for (id, n); k = NoKey: an unusable signature.
CallFor(h, k, id, n) ==
    DecryptCall(h, DecryptContentRequest(
        id, IF k = NoKey THEN BadSig ELSE PersonalSign(k, GenerateDecryptMessage(id, n)),
        Hello, n))

\* C10: whatever the header, the signer and the nonce, a decrypt call for a
\* record owned by another address is answered exactly as the same call for
\* an id that names no record, not found when the signature is the caller's;
\* it never reaches the save step, so it never changes the record.
C10_OwnershipIsolation ==
    /\ \A h \in Headers, k \in Keys \cup {NoKey}, i \in 1..Len(contents),
          n \in {contents[j].Nonce : j \in 1..Len(contents)} \cup {MadeUpNonce},
          dbOK \in BOOLEAN :
        contents[i].UserAddress # UserAddressOf(h) =>
            LET foreign == DecryptReject(CallFor(h, k, i, n), dbOK)
                missing == DecryptReject(CallFor(h, k, Len(contents) + 1, n), dbOK)
            IN /\ foreign = missing
               /\ foreign # Pass
               /\ (dbOK /\ k # NoKey /\ ToLower(UserAddressOf(h)) = << AddrTok(k, 0) >>)
                    => foreign = << 404, "Content not found" >>
    /\ \A p \in Procs : proc[p].pc = "decrypt_save" =>
        proc[p].content.UserAddress = UserAddressOf(proc[p].call.Authorization)
    /\ (last.op = "decrypt" /\ last.case.exists /\ ~last.case.owned) =>
        last.status \in {400, 401, 404, 500}

\* A call for an existing record of another address, carrying the caller's
\* own signature over the challenge, was answered not found.
C10_Witness ==
    /\ last.op = "decrypt" /\ last.status = 404
    /\ last.case.exists /\ ~last.case.owned /\ last.case.signed

\* The call is rejected because its signature is not the caller's signature
\* over the decrypt challenge; because its nonce is not the record's.
RejectedForSignature(call) ==
    /\ DecryptBindOK(call.req) /\ call.Authorization # EmptyStr
    /\ ~DecryptCase(call).signed
RejectedForNonce(call) ==
    /\ DecryptBindOK(call.req)
    /\ DecryptCase(call).signed /\ DecryptCase(call).owned
    /\ ~DecryptCase(call).nonceMatch

\* C11: a decrypt call rejected for its signature and a decrypt call rejected
\* for its nonce are answered with the same status and the same error.
C11_UnauthorizedIndistinguishable ==
    \A c1, c2 \in DecryptCalls :
        (RejectedForSignature(c1) /\ RejectedForNonce(c2)) =>
            DecryptReject(c1, TRUE) = DecryptReject(c2, TRUE)

\* C12: a login answered 200 leaves the address with the nonce of the token
\* it hands out, and that nonce differs from the one stored before.
C12_LoginRotationPersisted ==
    [][
        (last' # last /\ last'.op = "login" /\ last'.status = 200) =>
            LET a == last'.req.Address
            IN /\ Token(a, users'[a].Nonce) = last'.body
               /\ users'[a].Nonce # users[a].Nonce
    ]_vars

\* C13: a login or a decrypt whose save of the rotated nonce failed reports
\* an error and releases nothing.
C13_SaveFailureIsFatal ==
    (last.op \in {"login", "decrypt"} /\ last.case.saved = "failed") =>
        (last.status # 200 /\ last.body = EmptyStr)

\* C14: a public key is registered only when the submitted message is the
\* challenge over the nonce stored for the address at the time of the call.
C14_RegisterOnlyCanonical ==
    (last.op = "register" /\ last.status = 200) => last.case.canonical

\* C15: a registration for an address the store does not know fails and
\* changes nothing stored; a registration answered 200 leaves the address
\* with the submitted public key.
C15_RegisterKnownOnly ==
    [][
        (last' # last /\ last'.op = "register") =>
            /\ ~last'.case.existed =>
                 (/\ last'.status \in {400, 401, 404}
                  /\ UNCHANGED << users, contents, tokens >>)
            /\ last'.status = 200 =>
                 (/\ last'.case.existed /\ last'.case.signed
                  /\ users'[last'.req.Address].PublicKey = last'.req.PublicKey)
    ]_vars

\* A registration carrying the address's own signature was answered not
\* found because the store has no row for the address.
C15_Witness ==
    /\ last.op = "register" /\ last.status = 404
    /\ ~last.case.existed /\ last.case.signed

\* C16: two nonce queries for one address with nothing answered in between
\* return the same nonce.
C16_GetNonceIdempotent ==
    (last.op = "nonce" /\ last.status = 200 /\ last.case.again) => last.case.agree

\* C17: after a nonce query is answered, the store has a row for the address
\* and its nonce is the one returned; when the row existed before, the query
\* changed nothing stored.
C17_GetNonceProvisions ==
    [][
        (last' # last /\ last'.op = "nonce" /\ last'.status = 200) =>
            /\ last'.req \in DOMAIN users'
            /\ users'[last'.req].Nonce = last'.body
            /\ last'.case.existed => UNCHANGED << users, contents, tokens >>
    ]_vars

\* C18: a login request that is malformed, or whose signature is not the
\* claimed address's, is answered 400 or 401 and changes nothing stored; it
\* never gets as far as creating a row or rotating a nonce.
C18_FailedLoginChangesNothing ==
    [][
        /\ (last' # last /\ last'.op = "login"
               /\ (last'.case.malformed \/ ~last'.case.signed)) =>
             (/\ last'.status \in {400, 401}
              /\ UNCHANGED << users, contents, tokens >>)
        /\ \A p \in Procs : proc'[p].pc \in {"login_create", "login_save"} =>
             (~proc'[p].case.malformed /\ proc'[p].case.signed)
    ]_vars

\* A login signed by another key than the claimed address's was answered 401.
C18_Witness ==
    /\ last.op = "login" /\ last.status = 401
    /\ ~last.case.malformed /\ ~last.case.signed

\* C19: a decrypt request that is not answered 200, or that is not the
\* owner's signed request over the stored nonce, changes nothing stored; a
\* record's row changes only in the step that releases that record.
C19_FailedDecryptChangesNothing ==
    [][
        /\ (last' # last /\ last'.op = "decrypt"
               /\ (\/ last'.status # 200
                   \/ ~(last'.case.owned /\ last'.case.signed
                            /\ last'.case.nonceMatch))) =>
             UNCHANGED << users, contents, tokens >>
        /\ \A i \in 1..Len(contents) : contents'[i] # contents[i] =>
             (/\ last'.op = "decrypt" /\ last'.status = 200
              /\ last'.req.req.ContentID = i
              /\ contents'[i] = [contents[i] EXCEPT !.Nonce = contents'[i].Nonce])
    ]_vars

\* The owner's signed request over a nonce the record does not hold was
\* answered 401.
C19_Witness ==
    /\ last.op = "decrypt" /\ last.status = 401 /\ last.error = "Invalid nonce"
    /\ last.case.owned /\ last.case.signed /\ ~last.case.nonceMatch

\* What the record-nonce read answers in the current state: to the owner the
\* stored nonce, which the owner's signed decrypt call is then let through
\* with; to anyone else what it answers for an id that names no record.
RecordNonceRead ==
    \A h \in Headers \ {EmptyStr}, i \in 1..(Len(contents) + 1) :
        LET answer == DetailAnswer(<< NumTok(i) >>, h, TRUE)
            missing == DetailAnswer(<< NumTok(Len(contents) + 1) >>, h, TRUE)
        IN IF i <= Len(contents) /\ contents[i].UserAddress = UserAddressOf(h)
           THEN /\ answer = << 200, "", contents[i].Nonce >>
                /\ DecryptReject(CallFor(h, UserAddressOf(h)[1].s, i, answer[3]), TRUE)
                     = Pass
           ELSE answer = missing /\ answer[1] = 404

\* C20: the record-nonce read returns the stored nonce to the owner and not
\* found to anyone else, as for a missing id; the returned nonce, signed by
\* the owner in the decrypt challenge, passes the decrypt checks; the read
\* changes nothing stored.
C20_GetRecordNonce ==
    /\ []RecordNonceRead
    /\ [][
            /\ (last' # last /\ last'.op = "detail") =>
                 UNCHANGED << users, contents, tokens >>
            /\ (last' # last /\ last'.op = "detail" /\ last'.status = 200) =>
                 (\E i \in 1..Len(contents) : last'.body = contents[i].Nonce)
       ]_vars

\* The owner read the nonce of a stored record.
C20_Witness ==
    /\ last.op = "detail" /\ last.status = 200
    /\ \E i \in 1..Len(contents) : last.body = contents[i].Nonce

\* C21: the users table holds at most one row per address string, a row for
\* exactly the addresses that have an identity, and no identity has an empty
\* nonce.
C21_OneIdentityPerAddress ==
    /\ \A a \in DOMAIN userRows : userRows[a] <= 1
    /\ DOMAIN userRows = DOMAIN users
    /\ \A a \in DOMAIN users : users[a].Address = a /\ users[a].Nonce # EmptyStr

\* Two first-time logins for one address overlapped; both had seen no row,
\* one created it and was answered, the other's insert was then refused.
C21_Witness ==
    /\ last.op = "login" /\ last.error = "Failed to create user"
    /\ ~last.case.existed
    /\ overlap = "done" /\ \A p \in Procs : proc[p].pc = "idle"
    /\ << AddrTok("B", 1) >> \in DOMAIN users
    /\ userRows[<< AddrTok("B", 1) >>] = 1

\* C22: addresses that differ only in letter case are one identity: the users
\* table never holds two rows whose addresses agree up to case, and a record
\* is found for every spelling of its owner's address.
C22_CasingDenotesOneIdentity ==
    /\ \A a, b \in DOMAIN users : ToLower(a) = ToLower(b) => a = b
    /\ \A i \in 1..Len(contents) : \A authHeader \in Headers :
           ToLower(UserAddressOf(authHeader)) = ToLower(contents[i].UserAddress)
               => ContentFound(i, UserAddressOf(authHeader))

\* The ciphertext, key blob and IV of a stored record, as released.
Sealed(content) ==
    [encrypted_data |-> content.EncryptedData,
     encrypted_key |-> content.EncryptedKey,
     iv |-> content.IV]

\* C23: a record is stored with the ciphertext, key blob and IV of the create
\* request and the owner of its Authorization value; no step changes these
\* four fields of a stored record or removes a record; every release carries
\* the three fields of the stored record.
C23_EnvelopeImmutable ==
    /\ [](Released => last.body = Sealed(contents[last.req.req.ContentID]))
    /\ [][
         /\ Len(contents') >= Len(contents)
         /\ \A i \in 1..Len(contents) :
              /\ Sealed(contents'[i]) = Sealed(contents[i])
              /\ contents'[i].UserAddress = contents[i].UserAddress
         /\ (Len(contents') > Len(contents) =>
              (/\ Len(contents') = Len(contents) + 1
               /\ last'.op = "create" /\ last'.status = 200
               /\ Sealed(contents'[Len(contents')]) = Sealed(last'.req)))
       ]_vars

\* The second envelope was stored, its nonce was rotated by a release that
\* was written back, and the release carried that envelope.
C23_Witness ==
    /\ Released /\ last.case.saved = "ok"
    /\ last.body = Sealed(Envelope2)
    /\ contents[1].Nonce # << NonceTok(0) >>

\* The call made on the input of this behaviour, once it has been made.
Called == verified.calls >= 1
\* What VerifyEthereumSignature returns, in the present state, for the input
\* with another signature text or another address text.
VerifyWith(signature, expectedAddress) ==
    VerifyEthereumSignature(verified.input.Message, signature, expectedAddress)
\* The address text with its hex digits in another letter case.
Recased(address, form) ==
    [i \in DOMAIN address |->
        IF address[i].kind = "addr" THEN AddrTok(address[i].s, form) ELSE address[i]]

\* C24: a signature made over "foo" is rejected when the message to check is
\* "foo " (a trailing space), whoever signed and whatever address is claimed.
C24_TrailingSpaceRejected ==
    (/\ Called
     /\ verified.input.Message = Foo \o << Space >>
     /\ verified.input.Signature.hash = EthMessageHash(Foo))
        => ~verified.result

\* C25: the result of a call is the result for the same message and signature
\* with the claimed address in all-lowercase, in checksum case and in
\* all-uppercase.
C25_CaseInsensitiveAddress ==
    Called =>
        \A form \in {0, 1, 2} :
            VerifyWith(verified.input.Signature,
                       Recased(verified.input.Address, form)) = verified.result

\* A signature was accepted for an address written in all-uppercase.
C25_Witness ==
    /\ Called /\ verified.result
    /\ verified.input.Address = << AddrTok("A", 2) >>

\* C26: the result for a 65-byte signature whose last byte is 0 (or 1) is the
\* result for the signature with the same first 64 bytes and last byte 27
\* (or 28), for the same message and claimed address.
C26_ParityEncodingsEquivalent ==
    (/\ Called
     /\ verified.input.Signature.nbytes = SigLen
     /\ verified.input.Signature.v \in {0, 1})
        => VerifyWith([verified.input.Signature EXCEPT !.v = @ + 27],
                      verified.input.Address) = verified.result

\* A signature whose last byte is 1 in the canonical convention was accepted.
C26_Witness ==
    /\ Called /\ verified.result
    /\ verified.input.Signature.v = 1

C28_RecoveryByteNormalized ==
    (/\ Called /\ verified.rec # NoByte
     /\ verified.input.Signature.v \in {0, 1, 27, 28} \cup 35..255)
        => verified.rec \in {0, 1}

\* C29: when the last byte of the signature is in 2..26 or 29..34, the byte
\* passed to public-key recovery is 0.
C29_UnrecognizedParityIsZero ==
    (/\ Called /\ verified.rec # NoByte
     /\ verified.input.Signature.v \in 2..26 \cup 29..34)
        => verified.rec = 0

\* C30: a signature text that is not hex, or that decodes to a number of
\* bytes other than 65, is answered false; and the result of a call is the
\* result for the same signature text with the 0x prefix added or removed.
C30_MalformedSignatureIsFalse ==
    Called =>
        /\ (~verified.input.Signature.hexOK \/ verified.input.Signature.nbytes # SigLen)
               => ~verified.result
        /\ VerifyWith([verified.input.Signature EXCEPT !.has0x = ~@],
                      verified.input.Address) = verified.result

\* A hex signature of 64 bytes, sent without the 0x prefix, was answered false.
C30_Witness ==
    /\ Called /\ ~verified.result
    /\ ~verified.input.Signature.has0x
    /\ verified.input.Signature.hexOK
    /\ verified.input.Signature.nbytes = SigLen - 1

\* What VerifyEthereumSignature returns, in the present state, for the
\* signature and address of the input and another message text.
VerifyOn(message) ==
    VerifyEthereumSignature(message, verified.input.Signature, verified.input.Address)
\* The text begins and ends with a double quote (two characters at least).
Enclosed(str) == StrLen(str) >= 2 /\ Head(str) = Quote /\ str[Len(str)] = Quote
\* The text without its first and last character.
Inner(str) == SubSeq(str, 2, Len(str) - 1)
\* A message in two pairs of quotes hashes as the message in one pair, and a
\* signature over the bare message is not accepted for it.
OnePairRemoved ==
    (Called /\ Enclosed(verified.input.Message) /\ Enclosed(Inner(verified.input.Message)))
        => /\ verified.cleaned = Inner(verified.input.Message)
           /\ (verified.result =>
                 verified.input.Signature.hash = EthMessageHash(Inner(verified.input.Message)))
           /\ (verified.input.Signature.hash
                 = EthMessageHash(Inner(Inner(verified.input.Message)))
                   => ~verified.result)

\* C31 as stated: for every message m, m in one pair of double quotes with
\* whitespace around (outside or inside the quotes) verifies as m does; and
\* exactly one pair of quotes is removed.
C31_WrappedVerifiesAsBare ==
    /\ Called =>
        /\ VerifyOn(Padded(Quoted(verified.input.Message))) = verified.result
        /\ VerifyOn(Quoted(Padded(verified.input.Message))) = verified.result
    /\ OnePairRemoved

\* C31 amended: the same, for every message m that, once trimmed, is not
\* itself enclosed in a pair of double quotes.
C31_WrappedVerifiesAsBareUnquoted ==
    /\ (Called /\ ~Enclosed(TrimSpace(verified.input.Message))) =>
        /\ VerifyOn(Padded(Quoted(verified.input.Message))) = verified.result
        /\ VerifyOn(Quoted(Padded(verified.input.Message))) = verified.result
    /\ OnePairRemoved

\* Wallet A's signature over "foo" was accepted for "foo" in quotes with a
\* space on either side.
C31_Witness ==
    /\ Called /\ verified.result
    /\ verified.input.Message = Padded(Quoted(Foo))
    /\ verified.cleaned = Foo

\* C32: a nonce that was stored for an address and replaced never becomes the
\* address's stored nonce again: whenever a step replaces the nonce stored for
\* an address, the new value is the nonce generated in that step.  (A value
\* stored in a step is either generated in it or copied from a row read
\* earlier, so a replacing value that is not fresh is one the address held.)
C32_RotatedNonceNeverReturns ==
    [][
        \A a \in DOMAIN users :
            (a \in DOMAIN users' /\ users'[a].Nonce # users[a].Nonce) =>
                (users'[a].Nonce = GenerateNonce)
    ]_vars

\* C33: a step that changes the public key stored for an address is the save
\* of a RegisterPublicKey request answered 200 for that address, and stores
\* the key of that request; in particular no Login changes it.
C33_PublicKeyKeptByLogin ==
    [][
        \A a \in DOMAIN users :
            (a \in DOMAIN users' /\ users'[a].PublicKey # users[a].PublicKey) =>
                (/\ last' # last
                 /\ last'.op = "register" /\ last'.status = 200
                 /\ last'.req.Address = a
                 /\ users'[a].PublicKey = last'.req.PublicKey)
    ]_vars

\* C34: the address the content handlers take from a token Login emitted is
\* the address that logged in, and it has a row: for the login just answered,
\* for every token emitted so far (each is that address, a colon and a
\* nonce), for the owner stored by a create made with a token, and for the
\* owner of a record released to a token.
C34_CredentialNamesItsIdentity ==
    /\ LoggedIn =>
        /\ UserAddressOf(last.body) = last.req.Address
        /\ UserFound(last.req.Address)
    /\ \A t \in tokens :
        /\ UserFound(UserAddressOf(t))
        /\ t = Token(UserAddressOf(t), << t[Len(t)] >>)
    /\ (last.op = "create" /\ last.status = 200 /\ last.case.header.emitted) =>
        \E t \in tokens :
            /\ contents[last.body[1].n].UserAddress = UserAddressOf(t)
            /\ UserFound(UserAddressOf(t))
    /\ (Released /\ last.req.Authorization \in tokens) =>
        contents[last.req.req.ContentID].UserAddress
            = UserAddressOf(last.req.Authorization)

\* Wallet B logged in for the first time and stored a record with the token
\* of that login; the record's owner is B's address.
C34_Witness ==
    /\ last.op = "create" /\ last.status = 200 /\ last.case.header.emitted
    /\ contents[last.body[1].n].UserAddress = << AddrTok("B", 1) >>
    /\ \E t \in tokens : UserAddressOf(t) = << AddrTok("B", 1) >>

====
